---- MODULE Spec2Model ----
(***************************************************************************)
(* A model of python_json_logger: the daily rotating file handlers (text   *)
(* and NDJSON), the logger factories, the JSON record model and the NDJSON *)
(* reader.                                                                 *)
(*                                                                         *)
(* Representation of Python values:                                        *)
(*   str            a sequence of atoms.  An atom is one character that    *)
(*                  matters to JSON or to line splitting (DQ, BS, NL, SP,  *)
(*                  LB, RB, ...) or a chunk of ordinary characters         *)
(*                  ("INFO", "E1", ...), which every conversion of the     *)
(*                  program copies unchanged;                              *)
(*   Optional[x]    None is <<>>, a value x is <<x>>;                      *)
(*   a file         exists flag and content, the content being the         *)
(*                  sequence of atoms written to it (NL ends a line).      *)
(***************************************************************************)
EXTENDS Integers, Sequences, FiniteSets, TLC

\* ---------------------------------------------------------------- bounds
MaxDay == 2
MaxFacades == 2
MaxCalls == 2
MaxLines == 3
MaxThreadCalls == 3

\* ----------------------------------------------------------------- atoms
DQ == "<dq>"
BS == "<bs>"
NL == "<nl>"
SP == "<sp>"
LB == "<lbrace>"
RB == "<rbrace>"
LK == "<lbracket>"
RK == "<rbracket>"
COLON == "<colon>"
COMMA == "<comma>"
NULL == "null"
LETTER_N == "n"

\* number of line ends in a text
CountNL(s) == Cardinality({i \in 1..Len(s) : s[i] = NL})

None == <<>>
Some(x) == <<x>>
IsNone(o) == o = <<>>
Unwrap(o) == o[1]

\* ------------------------------------------------- logging level constants
DEBUG == 10
INFO == 20
WARN == 30
ERROR == 40
FATAL == 50

\* logging.getLevelName for the five standard levels
getLevelName(levelno) ==
    CASE levelno = DEBUG -> "DEBUG"
      [] levelno = INFO -> "INFO"
      [] levelno = WARN -> "WARNING"
      [] levelno = ERROR -> "ERROR"
      [] levelno = FATAL -> "CRITICAL"

\* levels_map.get(level, INFO)
levels_map(level) ==
    CASE level = "DEBUG" -> DEBUG
      [] level = "FATAL" -> FATAL
      [] level = "ERROR" -> ERROR
      [] level = "WARN" -> WARN
      [] level = "INFO" -> INFO
      [] OTHER -> INFO

\* The Logger method called: debug / info / warning / error / critical.
MethodLevel(method) ==
    CASE method = "debug" -> DEBUG
      [] method = "info" -> INFO
      [] method = "warning" -> WARN
      [] method = "error" -> ERROR
      [] method = "critical" -> FATAL

\* ------------------------------------------------------------ date and time
Days == 1..MaxDay
\* datetime.now().strftime("%d_%m_%y") of day d
DateKeys == <<"01_01_26", "02_01_26", "03_01_26", "04_01_26">>
\* the date part of Formatter.formatTime(record, "%Y-%m-%d %H:%M:%S")
IsoDates == <<"2026-01-01", "2026-01-02", "2026-01-03", "2026-01-04">>
strftime(d) == DateKeys[d]
formatTime(created) == <<IsoDates[created], SP, "12:00:00">>

\* -------------------------------------------------------------- exceptions
\* An exception instance: its class name, str(e), whether it was raised
\* (a raised exception carries a traceback object) and its __cause__.
Exc(cls, text, raised) == [cls |-> cls, text |-> text, raised |-> raised, cause |-> None]

\* "raise cls(text) from cause", caught: a raised exception that wraps another
ExcFrom(cls, text, cause) ==
    [cls |-> cls, text |-> text, raised |-> TRUE, cause |-> Some(cause)]

\* The exc_info tuple (etype, evalue, etb) of a LogRecord; each part Optional.
ExcTuple(etype, evalue, etb) == [etype |-> etype, evalue |-> evalue, etb |-> etb]

\* Logger._log: exc_info given as an exception instance, as True, or not given.
\* True takes sys.exc_info(), which is (None, None, None) when no exception is
\* being handled.
normalize_exc_info(arg) ==
    CASE arg.kind = "absent" -> None
      [] arg.kind = "instance" ->
            Some(ExcTuple(Some(arg.e.cls), Some(arg.e),
                          IF arg.e.raised THEN Some("tb") ELSE None))
      [] arg.kind = "true_unhandled" -> Some(ExcTuple(None, None, None))

\* The part traceback.format_exception gives for one exception of a chain: the
\* stack when it has a traceback, then "cls: text" (or "cls" for an empty text).
format_one(e, has_tb) ==
    (IF has_tb
     THEN <<"Traceback (most recent call last):", NL, "  File f, line 1, in g", NL>>
     ELSE <<>>)
    \o (IF e.text = <<>> THEN <<e.cls, NL>> ELSE <<e.cls, COLON, SP>> \o e.text \o <<NL>>)

\* Variant of format_exception: only the innermost exception of a chain is
\* formatted.
format_exception_cause_only(ei) ==
    IF IsNone(ei.evalue)
    THEN <<"NoneType: None", NL>>
    ELSE IF IsNone(Unwrap(ei.evalue).cause)
    THEN format_one(Unwrap(ei.evalue), ~IsNone(ei.etb))
    ELSE format_one(Unwrap(Unwrap(ei.evalue).cause), Unwrap(Unwrap(ei.evalue).cause).raised)

\* traceback.format_exception(etype, evalue, etb), joined: the cause first, then
\* the exception itself.
format_exception(ei) ==
    IF IsNone(ei.evalue)
    THEN <<"NoneType: None", NL>>
    ELSE (IF IsNone(Unwrap(ei.evalue).cause) THEN <<>>
          ELSE format_one(Unwrap(Unwrap(ei.evalue).cause),
                          Unwrap(Unwrap(ei.evalue).cause).raised)
               \o <<NL, "The above exception was the direct cause of the following exception:",
                    NL, NL>>)
         \o format_one(Unwrap(ei.evalue), ~IsNone(ei.etb))

\* ------------------------------------------------------------ JsonLogEntry
Fields == <<"time", "logger", "level", "file", "thread", "message",
            "exc_type", "exc_message", "exc_traceback">>
StrFields == {"time", "logger", "level", "file", "thread", "message"}
ExcFields == {"exc_type", "exc_message", "exc_traceback"}

\* JsonLogEntry.from_record.  tbFails: format_exception raises.
from_record(record, tbFails) ==
    LET has == ~IsNone(record.exc_info)
        ei == IF has THEN Unwrap(record.exc_info) ELSE ExcTuple(None, None, None)
        exc_type == IF has /\ ~IsNone(ei.etype) THEN Some(<<Unwrap(ei.etype)>>) ELSE None
        exc_message == IF has /\ ~IsNone(ei.evalue) THEN Some(Unwrap(ei.evalue).text) ELSE None
        exc_traceback == IF has /\ ~tbFails THEN Some(format_exception(ei)) ELSE None
    IN  [time |-> formatTime(record.created),
         logger |-> record.name,
         level |-> <<record.levelname>>,
         file |-> record.filename,
         thread |-> record.threadName,
         message |-> record.msg,
         exc_type |-> exc_type,
         exc_message |-> exc_message,
         exc_traceback |-> exc_traceback]

\* json.dumps of a str: quotes, and the escapes of DQ, BS and NL.
EscapeAtom(a) ==
    CASE a = DQ -> <<BS, DQ>>
      [] a = BS -> <<BS, BS>>
      [] a = NL -> <<BS, LETTER_N>>
      [] OTHER -> <<a>>

\* the positions from i on of the atoms that JSON writes and reads as escapes
Specials(s, i) == {k \in i..Len(s) : s[k] \in {DQ, BS, NL}}
First(S) == CHOOSE k \in S : \A m \in S : k <= m

\* the text goes as it is up to the next atom to escape
RECURSIVE Escape(_)
EscapeAt(s, j) ==
    SubSeq(s, 1, j - 1) \o EscapeAtom(s[j]) \o Escape(SubSeq(s, j + 1, Len(s)))
Escape(s) == IF Specials(s, 1) = {} THEN s ELSE EscapeAt(s, First(Specials(s, 1)))

dumps_str(s) == <<DQ>> \o Escape(s) \o <<DQ>>
dumps_opt(o) == IF IsNone(o) THEN <<NULL>> ELSE dumps_str(Unwrap(o))

RECURSIVE dumps_items(_, _)
dumps_items(entry, i) ==
    IF i > Len(Fields) THEN <<>>
    ELSE LET k == Fields[i]
         IN  (IF i > 1 THEN <<COMMA, SP>> ELSE <<>>)
             \o dumps_str(<<k>>) \o <<COLON, SP>>
             \o (IF k \in ExcFields THEN dumps_opt(entry[k]) ELSE dumps_str(entry[k]))
             \o dumps_items(entry, i + 1)

\* DailyJsonRotatingFileHandler._serialize_record, given the entry:
\* json_dumps(asdict(payload), ensure_ascii=False, default=str)
json_dumps(entry) == <<LB>> \o dumps_items(entry, 1) \o <<RB>>

_serialize_record(record, tbFails) == json_dumps(from_record(record, tbFails))

\* Formatter(log_format, datefmt).format(record) of the text logger:
\* "[%(asctime)s] [%(filename)s] [%(threadName)s] [%(levelname)s] - %(message)s",
\* followed on new lines by the formatted exception when exc_info is set.
text_format(record) ==
    LET s == <<"[">> \o formatTime(record.created) \o <<"]", SP, "[">> \o record.filename
             \o <<"]", SP, "[">> \o record.threadName \o <<"]", SP, "[", record.levelname, "]", SP, "-", SP>>
             \o record.msg
        exc_text == IF IsNone(record.exc_info) THEN <<>>
                    ELSE format_exception(Unwrap(record.exc_info))
    IN  IF exc_text = <<>> THEN s
        ELSE (IF s[Len(s)] # NL THEN s \o <<NL>> ELSE s)
             \o SubSeq(exc_text, 1, Len(exc_text) - 1)


\* =========================================================================
\* json.loads and the reader (json_reader.py)
\* =========================================================================
\* A parsed JSON value: t is the Python type, s the text of a str or number,
\* items the pairs <<key, value>> of a dict or the elements of a list.
JStr(s) == [t |-> "str", s |-> s, items |-> <<>>]
JNum(a) == [t |-> "int", s |-> <<a>>, items |-> <<>>]
JNull == [t |-> "NoneType", s |-> <<>>, items |-> <<>>]
JDict(pairs) == [t |-> "dict", s |-> <<>>, items |-> pairs]
JList(elems) == [t |-> "list", s |-> <<>>, items |-> elems]
Digits == {"1", "3"}

\* The result of a parsing step: a value and the position after it, or the
\* position at which decoding failed.
Ok(v, n) == [ok |-> TRUE, v |-> v, next |-> n]
Bad(pos) == [ok |-> FALSE, v |-> JNull, next |-> pos]

RECURSIVE SkipWs(_, _)
SkipWs(s, i) == IF i <= Len(s) /\ s[i] \in {SP, NL} THEN SkipWs(s, i + 1) ELSE i

\* The body of a JSON string from position i (after the opening quote): an
\* unescaped quote ends it, a raw control character or an unknown escape is
\* an error.
\* The scanner goes from one quote, backslash or control character to the next,
\* taking the text between them as it is.
RECURSIVE ScanString(_, _, _)
ScanSpecial(s, j, chunk) ==
    IF s[j] = DQ THEN Ok(chunk, j + 1)
    ELSE IF s[j] = NL THEN Bad(j)
    ELSE IF j + 1 > Len(s) THEN Bad(j)
    ELSE IF s[j + 1] = DQ THEN ScanString(s, j + 2, Append(chunk, DQ))
    ELSE IF s[j + 1] = BS THEN ScanString(s, j + 2, Append(chunk, BS))
    ELSE IF s[j + 1] = LETTER_N THEN ScanString(s, j + 2, Append(chunk, NL))
    ELSE Bad(j)
ScanTo(s, i, acc, j) == ScanSpecial(s, j, acc \o SubSeq(s, i, j - 1))
ScanString(s, i, acc) ==
    IF Specials(s, i) = {} THEN Bad(IF i > Len(s) THEN i ELSE Len(s) + 1)
    ELSE ScanTo(s, i, acc, First(Specials(s, i)))

RECURSIVE ParseValue(_, _)
RECURSIVE ParseMembers(_, _, _)
RECURSIVE ParseElements(_, _, _)

\* a value: an object, an array, a string, null or a number of one digit
ParsedString(r) == IF r.ok THEN Ok(JStr(r.v), r.next) ELSE r
ParseDict(s, j) ==
    IF j <= Len(s) /\ s[j] = RB THEN Ok(JDict(<<>>), j + 1) ELSE ParseMembers(s, j, <<>>)
ParseList(s, j) ==
    IF j <= Len(s) /\ s[j] = RK THEN Ok(JList(<<>>), j + 1) ELSE ParseElements(s, j, <<>>)
ParseAt(s, i) ==
    IF i > Len(s) THEN Bad(i)
    ELSE IF s[i] = LB THEN ParseDict(s, SkipWs(s, i + 1))
    ELSE IF s[i] = LK THEN ParseList(s, SkipWs(s, i + 1))
    ELSE IF s[i] = DQ THEN ParsedString(ScanString(s, i + 1, <<>>))
    ELSE IF s[i] = NULL THEN Ok(JNull, i + 1)
    ELSE IF s[i] \in Digits THEN Ok(JNum(s[i]), i + 1)
    ELSE Bad(i)
ParseValue(s, i0) == ParseAt(s, SkipWs(s, i0))

\* the members of an object: "key": value, separated by commas, up to the brace
MemberEnd(s, e, acc2) ==
    IF e > Len(s) THEN Bad(e)
    ELSE IF s[e] = RB THEN Ok(JDict(acc2), e + 1)
    ELSE IF s[e] = COMMA THEN ParseMembers(s, SkipWs(s, e + 1), acc2)
    ELSE Bad(e)
MemberValue(s, acc, k, v) ==
    IF ~v.ok THEN v ELSE MemberEnd(s, SkipWs(s, v.next), Append(acc, <<k.v, v.v>>))
MemberColon(s, acc, k, c) ==
    IF c > Len(s) \/ s[c] # COLON THEN Bad(c)
    ELSE MemberValue(s, acc, k, ParseValue(s, c + 1))
MemberKey(s, acc, k) == IF ~k.ok THEN k ELSE MemberColon(s, acc, k, SkipWs(s, k.next))
ParseMembers(s, i, acc) ==
    IF i > Len(s) \/ s[i] # DQ THEN Bad(i)
    ELSE MemberKey(s, acc, ScanString(s, i + 1, <<>>))

\* the elements of an array, separated by commas, up to the bracket
ElementEnd(s, e, acc2) ==
    IF e > Len(s) THEN Bad(e)
    ELSE IF s[e] = RK THEN Ok(JList(acc2), e + 1)
    ELSE IF s[e] = COMMA THEN ParseElements(s, e + 1, acc2)
    ELSE Bad(e)
ElementValue(s, acc, v) ==
    IF ~v.ok THEN v ELSE ElementEnd(s, SkipWs(s, v.next), Append(acc, v.v))
ParseElements(s, i, acc) == ElementValue(s, acc, ParseValue(s, i))

\* json.JSONDecodeError(msg, doc, pos): lineno and colno are those of pos within
\* doc, the text handed to json.loads.
JSONDecodeError(doc, pos) ==
    [type |-> "JSONDecodeError", doc |-> doc, pos |-> pos - 1,
     lineno |-> 1 + CountNL(SubSeq(doc, 1, pos - 1)),
     colno |-> pos - (IF \E j \in 1..(pos - 1) : doc[j] = NL
                      THEN CHOOSE j \in 1..(pos - 1) :
                               doc[j] = NL /\ \A k \in (j + 1)..(pos - 1) : doc[k] # NL
                      ELSE 0)]

AttributeError(obj) ==
    [type |-> "AttributeError", doc |-> <<obj.t>>, pos |-> 0, lineno |-> 0, colno |-> 0]

Returned(v) == [raised |-> FALSE, error |-> None, value |-> Some(v)]
Raised(err) == [raised |-> TRUE, error |-> Some(err), value |-> None]

\* json.loads(doc): one JSON value, nothing but whitespace after it.
loads_end(doc, r, e) ==
    IF e <= Len(doc) THEN Raised(JSONDecodeError(doc, e)) ELSE Returned(r.v)
loads_value(doc, r) ==
    IF ~r.ok THEN Raised(JSONDecodeError(doc, r.next))
    ELSE loads_end(doc, r, SkipWs(doc, r.next))
json_loads(doc) == loads_value(doc, ParseValue(doc, 1))

\* dict.get(key, default): the value of the last pair with that key
RECURSIVE dict_get(_, _, _, _)
dict_get(items, key, default, i) ==
    IF i = 0 THEN default
    ELSE IF items[i][1] = <<key>> THEN items[i][2]
    ELSE dict_get(items, key, default, i - 1)

\* str(x) of a value json.loads can return
py_str(v) ==
    CASE v.t = "str" -> v.s
      [] v.t = "int" -> v.s
      [] v.t = "NoneType" -> <<"None">>
      [] v.t = "dict" -> <<LB, "...", RB>>
      [] v.t = "list" -> <<LK, "...", RK>>

\* Variant of from_dict: an exception field is kept only when its value is
\* truthy, so an empty string reads as None.
from_dict_truthy(raw) ==
    LET get(k) == dict_get(raw.items, k, JStr(<<>>), Len(raw.items))
        val(k) == dict_get(raw.items, k, JNull, Len(raw.items))
        opt(k) == IF val(k) # JNull /\ val(k) # JStr(<<>>) THEN Some(py_str(val(k))) ELSE None
    IN  [time |-> py_str(get("time")),
         logger |-> py_str(get("logger")),
         level |-> py_str(get("level")),
         file |-> py_str(get("file")),
         thread |-> py_str(get("thread")),
         message |-> py_str(get("message")),
         exc_type |-> opt("exc_type"),
         exc_message |-> opt("exc_message"),
         exc_traceback |-> opt("exc_traceback")]

\* Variant of from_dict: raw.get(key) without the "" default.
from_dict_no_default(raw) ==
    LET get(k) == dict_get(raw.items, k, JNull, Len(raw.items))
        opt(k) == IF get(k) # JNull THEN Some(py_str(get(k))) ELSE None
    IN  [time |-> py_str(get("time")),
         logger |-> py_str(get("logger")),
         level |-> py_str(get("level")),
         file |-> py_str(get("file")),
         thread |-> py_str(get("thread")),
         message |-> py_str(get("message")),
         exc_type |-> opt("exc_type"),
         exc_message |-> opt("exc_message"),
         exc_traceback |-> opt("exc_traceback")]

\* JsonLogRecord.from_dict(raw), raw a dict
from_dict(raw) ==
    LET get(k) == dict_get(raw.items, k, JStr(<<>>), Len(raw.items))
        opt(k) == IF dict_get(raw.items, k, JNull, Len(raw.items)) # JNull
                  THEN Some(py_str(dict_get(raw.items, k, JNull, Len(raw.items))))
                  ELSE None
    IN  [time |-> py_str(get("time")),
         logger |-> py_str(get("logger")),
         level |-> py_str(get("level")),
         file |-> py_str(get("file")),
         thread |-> py_str(get("thread")),
         message |-> py_str(get("message")),
         exc_type |-> opt("exc_type"),
         exc_message |-> opt("exc_message"),
         exc_traceback |-> opt("exc_traceback")]

\* The lines of a text file, as "for line in f" gives them: each ends with its
\* NL, except a last line that has none.
RECURSIVE FileLines(_, _)
FileLines(content, i) ==
    IF i > Len(content) THEN <<>>
    ELSE IF \E j \in i..Len(content) : content[j] = NL
    THEN LET j == CHOOSE j \in i..Len(content) :
                      content[j] = NL /\ \A k \in i..(j - 1) : content[k] # NL
         IN  <<SubSeq(content, i, j)>> \o FileLines(content, j + 1)
    ELSE <<SubSeq(content, i, Len(content))>>

\* str.strip(): without the leading and trailing whitespace
strip(line) ==
    LET keep == {i \in 1..Len(line) : line[i] \notin {SP, NL}}
    IN  IF keep = {} THEN <<>>
        ELSE SubSeq(line, CHOOSE i \in keep : \A j \in keep : i <= j,
                          CHOOSE i \in keep : \A j \in keep : i >= j)

\* Variant of iter_dicts: a blank line is handed to json_loads like any other.
RECURSIVE iter_dicts_keep_blank(_, _)
iter_dicts_keep_blank(lines, i) ==
    IF i > Len(lines) THEN [kind |-> "stop", r |-> Returned(JNull), next |-> i]
    ELSE LET line == strip(lines[i])
             r == json_loads(line)
         IN  IF r.raised THEN [kind |-> "raise", r |-> r, next |-> i]
             ELSE [kind |-> "yield", r |-> r, next |-> i + 1]

\* Variant of iter_dicts: a line json_loads rejects is passed over.
RECURSIVE iter_dicts_skip_bad(_, _)
iter_dicts_skip_bad(lines, i) ==
    IF i > Len(lines) THEN [kind |-> "stop", r |-> Returned(JNull), next |-> i]
    ELSE LET line == strip(lines[i])
         IN  IF line = <<>> THEN iter_dicts_skip_bad(lines, i + 1)
             ELSE LET r == json_loads(line)
                  IN  IF r.raised THEN iter_dicts_skip_bad(lines, i + 1)
                      ELSE [kind |-> "yield", r |-> r, next |-> i + 1]

\* JsonLogReader.iter_dicts, one step of the generator from line i on: the next
\* value yielded (and the line after it), the end of the file, or the error
\* raised.
RECURSIVE iter_dicts(_, _)
iter_loaded(i, r) ==
    IF r.raised THEN [kind |-> "raise", r |-> r, next |-> i]
    ELSE [kind |-> "yield", r |-> r, next |-> i + 1]
iter_line(lines, i, line) ==
    IF line = <<>> THEN iter_dicts(lines, i + 1) ELSE iter_loaded(i, json_loads(line))
iter_dicts(lines, i) ==
    IF i > Len(lines) THEN [kind |-> "stop", r |-> Returned(JNull), next |-> i]
    ELSE iter_line(lines, i, strip(lines[i]))

\* JsonLogReader.to_list: list(self.iter_dicts())
RECURSIVE to_list(_, _, _)
to_list_next(lines, acc, g) ==
    IF g.kind = "stop" THEN Returned(acc)
    ELSE IF g.kind = "raise" THEN g.r
    ELSE to_list(lines, g.next, Append(acc, Unwrap(g.r.value)))
to_list(lines, i, acc) == to_list_next(lines, acc, iter_dicts(lines, i))

\* JsonLogReader.to_records: list(self.iter_records()), iter_records mapping
\* JsonLogRecord.from_dict over iter_dicts; raw.get of a value that is no dict
\* raises AttributeError.
RECURSIVE to_records(_, _, _)
to_records_next(lines, acc, g) ==
    IF g.kind = "stop" THEN Returned(acc)
    ELSE IF g.kind = "raise" THEN g.r
    ELSE IF Unwrap(g.r.value).t # "dict" THEN Raised(AttributeError(Unwrap(g.r.value)))
    ELSE to_records(lines, g.next, Append(acc, from_dict(Unwrap(g.r.value))))
to_records(lines, i, acc) == to_records_next(lines, acc, iter_dicts(lines, i))

\* =========================================================================
\* The writers and the logger factories
\* =========================================================================
Names == {"app"}
Kinds == {"text", "json"}
Threads == {"MainThread"}
\* the factory calls made: (logger_name, level, to_console)
JsonFactoryArgs == {<<"app", "DEBUG", FALSE>>}
TextFactoryArgs == {<<"app", "ERROR", TRUE>>}
\* the log calls made: (method, exc_info argument)
NegativeNumberError == Exc("NegativeNumberError", <<"bad", SP, "-42">>, TRUE)
AppError == ExcFrom("AppError", <<"inner", SP, "failed">>, NegativeNumberError)
CallArgs == {<<"debug", [kind |-> "absent"]>>,
             <<"error", [kind |-> "instance", e |-> NegativeNumberError]>>}
Faults == {"none", "close", "open", "render", "traceback"}
MsgAtoms == <<"m1", "m2", "m3", "m4">>

Suffix(kind) == IF kind = "json" THEN "_logs.ndjson" ELSE "_logs.log"
Path(dir, key, suffix) == [dir |-> dir, key |-> key, suffix |-> suffix]
AllPaths == {Path(n, strftime(d), Suffix(k)) : n \in Names, d \in Days, k \in Kinds}

VARIABLES
    today,      \* the date datetime.now() returns
    facades,    \* the logger objects the factories have returned, in creation order
    handlers,   \* the rotating file handlers, in creation order
    handleTab,  \* every file object opened so far: its path and whether it is open
    files,      \* the log files: exists, content
    console,    \* number of records mirrored to the console handler
    pending,    \* per thread: the record made by a log call, not yet handled
    ncalls,     \* number of log calls made
    hist,       \* history: one event per emit of a file handler
    rec,        \* the record model: a LogRecord on its way to a line and back
    rd,         \* the reader: a file being read and what the read gave
    thr         \* threads inside Handler.handle: the handler's lock, each
                \* thread's position in emit and its local variables

wvars == <<today, facades, handlers, handleTab, files, console, pending, ncalls, hist>>
vars == <<today, facades, handlers, handleTab, files, console, pending, ncalls, hist,
          rec, rd, thr>>

\* rec and rd while the record model, or the reader, is not in use
RecIdle == [stage |-> "idle"]
RdIdle == [stage |-> "idle"]
\* thr while emit is taken as one step
ThrIdle == [stage |-> "idle"]

\* Variant of open_append: the file is opened with mode "w", which empties it.
open_truncate(T, F, path) ==
    [T |-> Append(T, [path |-> path, open |-> TRUE, buf |-> <<>>]),
     F |-> [F EXCEPT ![path] = [exists |-> TRUE, content |-> <<>>]],
     id |-> Len(T) + 1]

\* builtin open(path, "a"): a new open file object, its buffer empty; the file is
\* created when absent
open_append(T, F, path) ==
    [T |-> Append(T, [path |-> path, open |-> TRUE, buf |-> <<>>]),
     F |-> [F EXCEPT ![path].exists = TRUE],
     id |-> Len(T) + 1]

\* stream.write(text) on an open file object: the text goes to its buffer
write(T, id, text) == [T EXCEPT ![id].buf = @ \o text]

\* Variant of flush: the buffer is left as it is.
flush_skipped(T, F, id) == [T |-> T, F |-> F]

\* stream.flush(): what the buffer holds is appended to the file (append mode)
flush(T, F, id) ==
    [T |-> [T EXCEPT ![id].buf = <<>>],
     F |-> [F EXCEPT ![T[id].path].content = @ \o T[id].buf]]

\* Variant of close: the file object is left open.
close_skipped(T, F, id) == [T |-> T, F |-> F]

\* file.close(): flushes an open file object and closes it
close(T, F, id) ==
    IF T[id].open
    THEN [T |-> [flush(T, F, id).T EXCEPT ![id].open = FALSE], F |-> flush(T, F, id).F]
    ELSE [T |-> T, F |-> F]

\* stream.write(text); stream.flush()
write_flush(T, F, id, text) == flush(write(T, id, text), F, id)

\* DailyJsonRotatingFileHandler._get_current_log_file
json_get_current_log_file(log_dir, now) == Path(log_dir, strftime(now), "_logs.ndjson")

\* DailyRotatingFileHandler._get_current_log_file
text_get_current_log_file(log_dir, now) == Path(log_dir, strftime(now), "_logs.log")

\* DailyJsonRotatingFileHandler.__init__ / DailyRotatingFileHandler.__init__:
\* FileHandler.__init__ opens the file of the construction date at once.
NewHandler(kind, log_dir, level, now, T, F) ==
    LET first == IF kind = "json" THEN json_get_current_log_file(log_dir, now)
                 ELSE text_get_current_log_file(log_dir, now)
        o == open_append(T, F, first)
    IN  [H |-> [kind |-> kind, log_dir |-> log_dir, level |-> level,
                current_file |-> None, baseFilename |-> first, stream |-> Some(o.id)],
         T |-> o.T, F |-> o.F]

\* Handler.handleError(record): reports on stderr, never raises.  The event of
\* the emit records the outcome.
Event(h, now, ok, errs, raised, record, fault) ==
    [h |-> h, day |-> now, ok |-> ok, errs |-> errs, raised |-> raised, record |-> record,
     tbFailed |-> (fault = "traceback" /\ ~IsNone(record.exc_info))]

\* Variant of Outcome: emit without its "except Exception" clause, the failure
\* of a step leaves emit as an exception.
Outcome_unhandled(H, T, F, ok, errs) ==
    [H |-> H, T |-> T, F |-> F, ok |-> ok, errs |-> 0, raised |-> ~ok]

\* Variant of Outcome: a failing emit has already written the start of its line
\* to the stream it holds.
Outcome_partial(H, T, F, ok, errs) ==
    LET started == ~ok /\ ~IsNone(H.stream) /\ T[Unwrap(H.stream)].open
        w == write_flush(T, F, Unwrap(H.stream), <<LB>>)
    IN  [H |-> H, T |-> IF started THEN w.T ELSE T, F |-> IF started THEN w.F ELSE F,
         ok |-> ok, errs |-> errs, raised |-> FALSE]

\* How emit ends.  The whole body of emit is inside "try", and every failure of
\* a step is caught by "except Exception", which calls handleError and returns:
\* errs counts the calls of handleError, raised says that an exception leaves
\* emit.
Outcome(H, T, F, ok, errs) ==
    [H |-> H, T |-> T, F |-> F, ok |-> ok, errs |-> errs, raised |-> FALSE]

\* The handler, the file objects and the files while emit runs.
EmitState(H, T, F) == [H |-> H, T |-> T, F |-> F]

\* emit ends with the state s, or with the handler H and the file objects and
\* files tf.
Ended(s, ok, errs) == Outcome(s.H, s.T, s.F, ok, errs)
EndedWith(H, tf, ok, errs) == Outcome(H, tf.T, tf.F, ok, errs)

\* The steps of emit are written last step first: each step hands the state it
\* has made to the step after it.  fault: the step of this emit that raises, if
\* it is executed; gcNow: the file object that only a local variable refers to
\* is closed as soon as emit returns (reference counting) or stays open.

\* DailyJsonRotatingFileHandler.emit, the end: the local stream is dropped
json_emit_return(H, w, stream, collected) ==
    IF collected THEN EndedWith(H, close(w.T, w.F, stream), TRUE, 0)
    ELSE EndedWith(H, w, TRUE, 0)

\* stream.write(json_line + "\n"); stream.flush().  A closed stream raises.
json_emit_write(s, stream, fallback, json_line, gcNow) ==
    IF ~s.T[stream].open THEN Ended(s, FALSE, 1)
    ELSE json_emit_return(s.H, write_flush(s.T, s.F, stream, json_line \o <<NL>>),
                          stream, fallback /\ gcNow)

\* stream = self._open(): a file object that self.stream does not keep
json_emit_fallback(H, o2, json_line, gcNow) ==
    json_emit_write(EmitState(H, o2.T, o2.F), o2.id, TRUE, json_line, gcNow)

\* json_line = self._serialize_record(record); stream = self.stream or self._open()
json_emit_serialize(s, record, fault, gcNow) ==
    IF fault = "render" THEN Ended(s, FALSE, 1)
    ELSE IF IsNone(s.H.stream)
    THEN (IF fault = "open" THEN Ended(s, FALSE, 1)
          ELSE json_emit_fallback(s.H, open_append(s.T, s.F, s.H.baseFilename),
                                  _serialize_record(record, fault = "traceback"), gcNow))
    ELSE json_emit_write(s, Unwrap(s.H.stream), FALSE,
                         _serialize_record(record, fault = "traceback"), gcNow)

\* DailyRotatingFileHandler.emit, the end: StreamHandler.emit has written and
\* flushed, self.flush() flushes again
text_emit_flush(H, w, stream) == EndedWith(H, flush(w.T, w.F, stream), TRUE, 0)

\* StreamHandler.emit: format, write, flush; it hands its own failures (format,
\* write to a closed stream) to handleError and returns, and the self.flush()
\* after it raises on a closed stream once more.
text_emit_write(s, record, fault) ==
    LET stream == Unwrap(s.H.stream)
        closed == ~s.T[stream].open
    IN  IF fault \in {"render", "traceback"} \/ closed
        THEN Ended(s, FALSE, IF closed THEN 2 ELSE 1)
        ELSE text_emit_flush(s.H, write_flush(s.T, s.F, stream,
                                              text_format(record) \o <<NL>>), stream)

\* FileHandler.emit: self.stream = self._open() when self.stream is None
text_emit_reopened(H, o2, record, fault) ==
    text_emit_write(EmitState([H EXCEPT !.stream = Some(o2.id)], o2.T, o2.F), record, fault)

\* super().emit(record), which is FileHandler.emit
text_emit_super(s, record, fault) ==
    IF IsNone(s.H.stream)
    THEN (IF fault = "open" THEN Ended(s, FALSE, 1)
          ELSE text_emit_reopened(s.H, open_append(s.T, s.F, s.H.baseFilename),
                                  record, fault))
    ELSE text_emit_write(s, record, fault)

\* what follows the date check and the rollover in each emit
emit_after_rollover(s, record, fault, gcNow) ==
    IF s.H.kind = "json" THEN json_emit_serialize(s, record, fault, gcNow)
    ELSE text_emit_super(s, record, fault)

\* self.stream = self._open() on the new day file
emit_opened(H, o, record, fault, gcNow) ==
    emit_after_rollover(EmitState([H EXCEPT !.stream = Some(o.id)], o.T, o.F),
                        record, fault, gcNow)

\* self._current_file = current_log_file; self.baseFilename = str(current_log_file)
emit_renamed(H, current_log_file) ==
    [H EXCEPT !.current_file = Some(current_log_file), !.baseFilename = current_log_file]

\* the rollover after the old stream is closed: the new names, then _open()
emit_open(s, rotate, current_log_file, record, fault, gcNow) ==
    IF ~rotate THEN emit_after_rollover(s, record, fault, gcNow)
    ELSE IF fault = "open"
    THEN Ended(EmitState(emit_renamed(s.H, current_log_file), s.T, s.F), FALSE, 1)
    ELSE emit_opened(emit_renamed(s.H, current_log_file),
                     open_append(s.T, s.F, current_log_file), record, fault, gcNow)

\* self.stream.close(); self.stream = None
emit_closed(H, c, current_log_file, record, fault, gcNow) ==
    emit_open(EmitState([H EXCEPT !.stream = None], c.T, c.F), TRUE, current_log_file,
              record, fault, gcNow)

\* if current_log_file != self._current_file: if self.stream: close ...
emit_rollover(s, current_log_file, record, fault, gcNow) ==
    LET rotate == Some(current_log_file) # s.H.current_file
        closing == rotate /\ ~IsNone(s.H.stream)
    IN  IF ~closing THEN emit_open(s, rotate, current_log_file, record, fault, gcNow)
        ELSE IF fault = "close" /\ s.T[Unwrap(s.H.stream)].open
        THEN EndedWith(s.H, close(s.T, s.F, Unwrap(s.H.stream)), FALSE, 1)
        ELSE emit_closed(s.H, close(s.T, s.F, Unwrap(s.H.stream)), current_log_file,
                         record, fault, gcNow)

\* DailyJsonRotatingFileHandler.emit
json_emit(H0, T0, F0, now, record, fault, gcNow) ==
    emit_rollover(EmitState(H0, T0, F0), json_get_current_log_file(H0.log_dir, now),
                  record, fault, gcNow)

\* DailyRotatingFileHandler.emit
text_emit(H0, T0, F0, now, record, fault, gcNow) ==
    emit_rollover(EmitState(H0, T0, F0), text_get_current_log_file(H0.log_dir, now),
                  record, fault, gcNow)

file_emit(H0, T0, F0, now, record, fault, gcNow) ==
    IF H0.kind = "json" THEN json_emit(H0, T0, F0, now, record, fault, gcNow)
    ELSE text_emit(H0, T0, F0, now, record, fault, gcNow)


\* JsonAppLogger(logger_name) followed by logger.setLevel(current_level):
\* a new Logger object, whose handler list starts empty.
JsonAppLogger(logger_name, current_level) ==
    [name |-> logger_name, kind |-> "json", level |-> current_level, handlers |-> <<>>]

\* AppLogger(logger_name) followed by logger.setLevel(current_level)
AppLogger(logger_name, current_level) ==
    [name |-> logger_name, kind |-> "text", level |-> current_level, handlers |-> <<>>]

FileSink(h) == [sink |-> "file", h |-> h]
ConsoleSink == [sink |-> "console", h |-> 0]

Made(FS, HS, T, F) == [facades |-> FS, handlers |-> HS, T |-> T, F |-> F]

\* Variant of get_json_app_logger: the logger of a name is one shared object
\* (as logging.getLogger gives), and a file handler is added on every request.
get_json_app_logger_shared(logger_name, level, to_console, FS, HS, T, F, now) ==
    LET current_level == levels_map(level)
        same == {i \in 1..Len(FS) : FS[i].name = logger_name /\ FS[i].kind = "json"}
        old == IF same = {} THEN <<>> ELSE FS[CHOOSE i \in same : TRUE].handlers
        nh == NewHandler("json", logger_name, current_level, now, T, F)
        hs == old \o <<FileSink(Len(HS) + 1)>>
        logger == [JsonAppLogger(logger_name, current_level) EXCEPT !.handlers = hs]
    IN  Made(Append([i \in 1..Len(FS) |-> IF i \in same THEN logger ELSE FS[i]], logger),
             Append(HS, nh.H), nh.T, nh.F)

\* get_json_app_logger(logger_name, level, to_console)
get_json_app_logger(logger_name, level, to_console, FS, HS, T, F, now) ==
    LET current_level == levels_map(level)
        logger == JsonAppLogger(logger_name, current_level)
    IN  IF logger.handlers = <<>>
        THEN LET nh == NewHandler("json", logger_name, current_level, now, T, F)
                 hs == <<FileSink(Len(HS) + 1)>>
                       \o (IF to_console THEN <<ConsoleSink>> ELSE <<>>)
             IN  Made(Append(FS, [logger EXCEPT !.handlers = hs]), Append(HS, nh.H), nh.T, nh.F)
        ELSE Made(Append(FS, logger), HS, T, F)

\* get_app_logger(logger_name, level, to_console)
get_app_logger(logger_name, level, to_console, FS, HS, T, F, now) ==
    LET current_level == levels_map(level)
        logger == AppLogger(logger_name, current_level)
    IN  IF logger.handlers = <<>>
        THEN LET nh == NewHandler("text", logger_name, current_level, now, T, F)
                 hs == <<FileSink(Len(HS) + 1)>>
                       \o (IF to_console THEN <<ConsoleSink>> ELSE <<>>)
             IN  Made(Append(FS, [logger EXCEPT !.handlers = hs]), Append(HS, nh.H), nh.T, nh.F)
        ELSE Made(Append(FS, logger), HS, T, F)

\* Logger.makeRecord: the record of one log call; its time is read now.
makeRecord(facade, method, excArg, thread, n, now) ==
    [created |-> now,
     name |-> <<facade.name>>,
     levelno |-> MethodLevel(method),
     levelname |-> getLevelName(MethodLevel(method)),
     filename |-> <<"main.py">>,
     threadName |-> <<thread>>,
     msg |-> <<MsgAtoms[n]>>,
     exc_info |-> normalize_exc_info(excArg)]

\* Variant of Logger.isEnabledFor: every level is enabled.
isEnabledFor_any(facade, level) == TRUE

\* Logger.isEnabledFor(level) of a facade whose level the factory has set
isEnabledFor(facade, level) == level >= facade.level

\* Logger.callHandlers: every handler whose level admits the record handles it,
\* in the order the handlers were added.  Handler.handle holds the handler's
\* lock around emit.  An exception that leaves emit leaves callHandlers and the
\* log call: the handlers after it are not called.
RECURSIVE callHandlers(_, _, _, _, _, _, _)
\* the handler h has handled the record, with the result r of its emit
handled(hs, S, now, record, fault, gcNow, i, h, r) ==
    LET S2 == [handlers |-> [S.handlers EXCEPT ![h] = r.H],
               T |-> r.T, F |-> r.F, console |-> S.console,
               hist |-> Append(S.hist, Event(h, now, r.ok, r.errs, r.raised, record, fault))]
    IN  IF r.raised THEN S2
        ELSE callHandlers(hs, S2, now, record, fault, gcNow, i + 1)

callHandlers(hs, S, now, record, fault, gcNow, i) ==
    IF i > Len(hs) THEN S
    ELSE IF hs[i].sink = "console"
    THEN callHandlers(hs, [S EXCEPT !.console = IF fault = "render" THEN @ ELSE @ + 1],
                      now, record, fault, gcNow, i + 1)
    ELSE IF record.levelno >= S.handlers[hs[i].h].level
    THEN handled(hs, S, now, record, fault, gcNow, i, hs[i].h,
                 file_emit(S.handlers[hs[i].h], S.T, S.F, now, record, fault, gcNow))
    ELSE callHandlers(hs, S, now, record, fault, gcNow, i + 1)

\* ---------------------------------------------------------------- actions
WInit ==
    /\ today = 1
    /\ facades = <<>>
    /\ handlers = <<>>
    /\ handleTab = <<>>
    /\ files = [p \in AllPaths |-> [exists |-> FALSE, content |-> <<>>]]
    /\ console = 0
    /\ pending = [t \in Threads |-> None]
    /\ ncalls = 0
    /\ hist = <<>>
    /\ rec = RecIdle
    /\ rd = RdIdle
    /\ thr = ThrIdle

\* The wall-clock date changes.
SetDate(d) ==
    /\ d # today
    /\ today' = d
    /\ UNCHANGED <<facades, handlers, handleTab, files, console, pending, ncalls, hist, rec, rd, thr>>

\* Thread t, not inside a log call, asks a factory for a logger.
CreateJsonLogger(t, name, level, to_console) ==
    /\ Len(facades) < MaxFacades
    /\ IsNone(pending[t])
    /\ LET m == get_json_app_logger(name, level, to_console, facades, handlers,
                                    handleTab, files, today)
       IN  /\ facades' = m.facades
           /\ handlers' = m.handlers
           /\ handleTab' = m.T
           /\ files' = m.F
    /\ UNCHANGED <<today, console, pending, ncalls, hist, rec, rd, thr>>

CreateTextLogger(t, name, level, to_console) ==
    /\ Len(facades) < MaxFacades
    /\ IsNone(pending[t])
    /\ LET m == get_app_logger(name, level, to_console, facades, handlers,
                               handleTab, files, today)
       IN  /\ facades' = m.facades
           /\ handlers' = m.handlers
           /\ handleTab' = m.T
           /\ files' = m.F
    /\ UNCHANGED <<today, console, pending, ncalls, hist, rec, rd, thr>>

\* Logger.debug/info/warning/error/critical up to Logger.handle: a call below
\* the logger's level returns at once; otherwise the record is made.
LogCall(t, f, method, excArg) ==
    /\ ncalls < MaxCalls
    /\ IsNone(pending[t])
    /\ f \in 1..Len(facades)
    /\ ncalls' = ncalls + 1
    /\ pending' = IF isEnabledFor(facades[f], MethodLevel(method))
                  THEN [pending EXCEPT ![t] =
                           Some([f |-> f,
                                 record |-> makeRecord(facades[f], method, excArg, t,
                                                       ncalls + 1, today)])]
                  ELSE pending
    /\ UNCHANGED <<today, facades, handlers, handleTab, files, console, hist, rec, rd, thr>>

\* Logger.handle -> callHandlers of the pending record of thread t.
Emit(t, fault, gcNow) ==
    /\ ~IsNone(pending[t])
    /\ LET p == Unwrap(pending[t])
           S == callHandlers(facades[p.f].handlers,
                             [handlers |-> handlers, T |-> handleTab, F |-> files,
                              console |-> console, hist |-> hist],
                             today, p.record, fault, gcNow, 1)
       IN  /\ handlers' = S.handlers
           /\ handleTab' = S.T
           /\ files' = S.F
           /\ console' = S.console
           /\ hist' = S.hist
    /\ pending' = [pending EXCEPT ![t] = None]
    /\ UNCHANGED <<today, facades, ncalls, rec, rd, thr>>

WNext ==
    \/ \E d \in Days : SetDate(d)
    \/ \E t \in Threads, a \in JsonFactoryArgs : CreateJsonLogger(t, a[1], a[2], a[3])
    \/ \E t \in Threads, a \in TextFactoryArgs : CreateTextLogger(t, a[1], a[2], a[3])
    \/ \E t \in Threads, f \in 1..MaxFacades, c \in CallArgs : LogCall(t, f, c[1], c[2])
    \/ \E t \in Threads, fault \in Faults, g \in BOOLEAN : Emit(t, fault, g)

Spec == WInit /\ [][WNext]_vars

\* The writers at rest, for the specifications that exercise the record model
\* and the reader alone.
WIdle ==
    /\ today = 1
    /\ facades = <<>>
    /\ handlers = <<>>
    /\ handleTab = <<>>
    /\ files = [p \in AllPaths |-> [exists |-> FALSE, content |-> <<>>]]
    /\ console = 0
    /\ pending = [t \in Threads |-> None]
    /\ ncalls = 0
    /\ hist = <<>>
    /\ thr = ThrIdle

\* =========================================================================
\* The record model on its own: LogRecord -> JsonLogEntry -> line -> dict ->
\* JsonLogRecord
\* =========================================================================
SampleTexts == {<<>>, <<"a">>, <<DQ>>, <<BS, LETTER_N>>, <<"a", NL, "b">>, <<NULL>>,
                <<LB, DQ, "k", DQ, COLON, SP, "1", RB>>}
SampleNames == {<<>>, <<"app">>}
SampleMethods == {"warning", "critical"}
SampleExcs == {Exc("ValueError", <<>>, TRUE),
               Exc("KeyError", <<"x", DQ>>, FALSE),
               NegativeNumberError,
               AppError}
SampleExcArgs == {[kind |-> "absent"], [kind |-> "true_unhandled"]}
                 \cup {[kind |-> "instance", e |-> x] : x \in SampleExcs}

\* the LogRecord Logger.makeRecord builds for such a call
SampleRecord(name, method, msg, excArg) ==
    [created |-> 1,
     name |-> name,
     levelno |-> MethodLevel(method),
     levelname |-> getLevelName(MethodLevel(method)),
     filename |-> <<"main.py">>,
     threadName |-> <<"MainThread">>,
     msg |-> msg,
     exc_info |-> normalize_exc_info(excArg)]

RInit ==
    /\ WIdle
    /\ rd = RdIdle
    /\ \E name \in SampleNames, method \in SampleMethods, msg \in SampleTexts,
          excArg \in SampleExcArgs, tbFails \in BOOLEAN :
          rec = [stage |-> "record",
                 record |-> SampleRecord(name, method, msg, excArg),
                 tbFails |-> tbFails,
                 entry |-> None, line |-> None, raw |-> None, back |-> None]

\* JsonLogEntry.from_record(record)
FromRecord ==
    /\ rec.stage = "record"
    /\ rec' = [rec EXCEPT !.stage = "entry",
                          !.entry = Some(from_record(rec.record, rec.tbFails))]
    /\ UNCHANGED <<wvars, rd, thr>>

\* json_dumps(asdict(payload), ...)
Serialize ==
    /\ rec.stage = "entry"
    /\ rec' = [rec EXCEPT !.stage = "line",
                          !.line = Some(json_dumps(Unwrap(rec.entry)))]
    /\ UNCHANGED <<wvars, rd, thr>>

\* json_loads(line)
Parse ==
    /\ rec.stage = "line"
    /\ rec' = [rec EXCEPT !.stage = "parsed",
                          !.raw = Some(json_loads(Unwrap(rec.line)))]
    /\ UNCHANGED <<wvars, rd, thr>>

\* JsonLogRecord.from_dict(raw)
FromDict ==
    /\ rec.stage = "parsed"
    /\ ~Unwrap(rec.raw).raised
    /\ Unwrap(Unwrap(rec.raw).value).t = "dict"
    /\ rec' = [rec EXCEPT !.stage = "back",
                          !.back = Some(from_dict(Unwrap(Unwrap(rec.raw).value)))]
    /\ UNCHANGED <<wvars, rd, thr>>

RNext ==
    \/ FromRecord
    \/ Serialize
    \/ Parse
    \/ FromDict

SpecRecord == RInit /\ [][RNext]_vars

\* =========================================================================
\* from_dict on its own: dicts with any of the nine keys left out and with keys
\* that are none of the nine
\* =========================================================================
FieldSet == {Fields[i] : i \in 1..Len(Fields)}
UnknownKeys == {<<>>, <<"pid">>, <<"pid", "exc">>}

\* the dict {k: "v-k" for k in present}, in field order, with the unknown keys
\* before and after
SampleDict(present, unknown) ==
    LET has(k) == k \in present
        known == SelectSeq(Fields, has)
    IN  JDict((IF Len(unknown) > 0 THEN <<<<<<unknown[1]>>, JNum("3")>>>> ELSE <<>>)
              \o [i \in 1..Len(known) |-> <<<<known[i]>>, JStr(<<"v", known[i]>>)>>]
              \o (IF Len(unknown) > 1 THEN <<<<<<unknown[2]>>, JList(<<>>)>>>> ELSE <<>>))

FInit ==
    /\ WIdle
    /\ rd = RdIdle
    /\ \E present \in SUBSET FieldSet, unknown \in UnknownKeys :
          rec = [stage |-> "parsed", record |-> None, tbFails |-> FALSE,
                 entry |-> None, line |-> None,
                 raw |-> Some(Returned(SampleDict(present, unknown))), back |-> None]

FNext == FromDict

SpecFromDict == FInit /\ [][FNext]_vars

\* =========================================================================
\* The reader on its own: a file of lines, read by to_list or to_records
\* =========================================================================
SampleEntry1 ==
    from_record(SampleRecord(<<"app">>, "warning", <<"a", DQ>>, [kind |-> "absent"]), FALSE)
SampleEntry2 ==
    from_record(SampleRecord(<<"app">>, "critical", <<>>,
                             [kind |-> "instance", e |-> NegativeNumberError]), FALSE)

\* The kinds of line a file is made of, and their text.
LineKinds == {"entry1", "entry2", "empty", "spaces", "broken", "array"}
LineText(k) ==
    CASE k = "entry1" -> json_dumps(SampleEntry1)
      [] k = "entry2" -> json_dumps(SampleEntry2)
      [] k = "empty" -> <<>>
      [] k = "spaces" -> <<SP, SP>>
      [] k = "broken" -> <<LB, DQ, "time", DQ, COLON, SP, DQ, "2026">>
      [] k = "array" -> <<LK, "1", COMMA, SP, "3", RK>>

RECURSIVE FileText(_, _, _)
FileText(src, i, finalNL) ==
    IF i > Len(src) THEN <<>>
    ELSE LineText(src[i])
         \o (IF i < Len(src) \/ finalNL THEN <<NL>> ELSE <<>>)
         \o FileText(src, i + 1, finalNL)

SampleSources == UNION {[1..n -> LineKinds] : n \in 0..MaxLines}
ReaderPaths == {"logs/01_01_26_logs.ndjson"}

DInit ==
    /\ WIdle
    /\ rec = RecIdle
    /\ \E src \in SampleSources, finalNL \in BOOLEAN, path \in ReaderPaths :
          rd = [stage |-> "file", path |-> path, src |-> src,
                content |-> FileText(src, 1, finalNL),
                op |-> "none", result |-> None]

\* JsonLogReader(path).to_list()
ToList ==
    /\ rd.stage = "file"
    /\ rd' = [rd EXCEPT !.stage = "done", !.op = "to_list",
                        !.result = Some(to_list(FileLines(rd.content, 1), 1, <<>>))]
    /\ UNCHANGED <<wvars, rec, thr>>

\* JsonLogReader(path).to_records()
ToRecords ==
    /\ rd.stage = "file"
    /\ rd' = [rd EXCEPT !.stage = "done", !.op = "to_records",
                        !.result = Some(to_records(FileLines(rd.content, 1), 1, <<>>))]
    /\ UNCHANGED <<wvars, rec, thr>>

DNext ==
    \/ ToList
    \/ ToRecords

SpecReader == DInit /\ [][DNext]_vars

\* =========================================================================
\* Writing and reading back: one JSON logger, log calls of every method, and a
\* JsonLogReader on a day file once the calls have returned
\* =========================================================================
Methods == {"debug", "info", "warning", "error", "critical"}
ReadBackCallArgs ==
    {<<m, [kind |-> "absent"]>> : m \in Methods}
    \cup {<<"warning", [kind |-> "instance", e |-> NegativeNumberError]>>,
          <<"error", [kind |-> "instance", e |-> NegativeNumberError]>>,
          <<"critical", [kind |-> "instance", e |-> AppError]>>,
          <<"error", [kind |-> "true_unhandled"]>>}
ReadBackFaults == {"none", "traceback", "render"}

\* JsonLogReader(path).to_records() on a day file of a JSON logger
ReadBack(p) ==
    /\ rd = RdIdle
    /\ \A t \in Threads : IsNone(pending[t])
    /\ p.suffix = "_logs.ndjson"
    /\ files[p].exists
    /\ rd' = [stage |-> "done", path |-> p, op |-> "to_records",
              result |-> Some(to_records(FileLines(files[p].content, 1), 1, <<>>))]
    /\ UNCHANGED <<wvars, rec, thr>>

BNext ==
    \/ \E d \in Days : rd = RdIdle /\ SetDate(d)
    \/ \E t \in Threads, a \in JsonFactoryArgs :
          rd = RdIdle /\ facades = <<>> /\ CreateJsonLogger(t, a[1], a[2], a[3])
    \/ \E t \in Threads, c \in ReadBackCallArgs :
          rd = RdIdle /\ LogCall(t, 1, c[1], c[2])
    \/ \E t \in Threads, fault \in ReadBackFaults, g \in BOOLEAN :
          rd = RdIdle /\ Emit(t, fault, g)
    \/ \E p \in AllPaths : ReadBack(p)

SpecReadBack == WInit /\ [][BNext]_vars

\* =========================================================================
\* Several threads logging through one facade: emit step by step.
\* Logger.callHandlers calls Handler.handle, which acquires the handler's lock
\* (the RLock Handler.__init__ creates), calls emit and releases the lock.
\* =========================================================================
LogThreads == {"Thread-1", "Thread-2"}

\* Variant of CanAcquire: the lock is not consulted.
CanAcquire_unlocked(lock, t) == TRUE

\* Handler.acquire() succeeds when no other thread holds the lock
CanAcquire(lock, t) == IsNone(lock) \/ lock = Some(t)

\* the one file handler of the one facade
TheHandler == facades[1].handlers[1].h

TInit ==
    /\ today = 1
    /\ \E kind \in Kinds :
          LET F0 == [p \in AllPaths |-> [exists |-> FALSE, content |-> <<>>]]
              m == IF kind = "json"
                   THEN get_json_app_logger("app", "DEBUG", FALSE, <<>>, <<>>, <<>>, F0, 1)
                   ELSE get_app_logger("app", "DEBUG", FALSE, <<>>, <<>>, <<>>, F0, 1)
          IN  /\ facades = m.facades
              /\ handlers = m.handlers
              /\ handleTab = m.T
              /\ files = m.F
    /\ console = 0
    /\ pending = [t \in LogThreads |-> None]
    /\ ncalls = 0
    /\ hist = <<>>
    /\ rec = RecIdle
    /\ rd = RdIdle
    /\ thr = [lock |-> None,
              pc |-> [t \in LogThreads |-> "idle"],
              day |-> [t \in LogThreads |-> 1],
              cur |-> [t \in LogThreads |-> None],
              rot |-> [t \in LogThreads |-> FALSE],
              line |-> [t \in LogThreads |-> <<>>],
              log |-> <<>>]

TSetDate(d) ==
    /\ d # today
    /\ today' = d
    /\ UNCHANGED <<facades, handlers, handleTab, files, console, pending, ncalls, hist,
                   rec, rd, thr>>

\* Thread t calls a logging method of the facade: the record is made.
TLogCall(t, method, excArg) ==
    /\ thr.pc[t] = "idle"
    /\ ncalls < MaxThreadCalls
    /\ MethodLevel(method) >= facades[1].level
    /\ ncalls' = ncalls + 1
    /\ pending' = [pending EXCEPT ![t] =
                      Some([f |-> 1,
                            record |-> makeRecord(facades[1], method, excArg, t,
                                                  ncalls + 1, today)])]
    /\ thr' = [thr EXCEPT !.pc[t] = "handle"]
    /\ UNCHANGED <<today, facades, handlers, handleTab, files, console, hist, rec, rd>>

\* Handler.handle: self.acquire()
TAcquire(t) ==
    /\ thr.pc[t] = "handle"
    /\ CanAcquire(thr.lock, t)
    /\ thr' = [thr EXCEPT !.lock = Some(t), !.pc[t] = "date"]
    /\ UNCHANGED <<today, facades, handlers, handleTab, files, console, pending, ncalls,
                   hist, rec, rd>>

\* emit: current_log_file = self._get_current_log_file(), compared with
\* self._current_file
TDate(t) ==
    /\ thr.pc[t] = "date"
    /\ LET H == handlers[TheHandler]
           current_log_file == IF H.kind = "json"
                               THEN json_get_current_log_file(H.log_dir, today)
                               ELSE text_get_current_log_file(H.log_dir, today)
           rotate == Some(current_log_file) # H.current_file
       IN  thr' = [thr EXCEPT !.day[t] = today,
                              !.cur[t] = Some(current_log_file),
                              !.rot[t] = rotate,
                              !.pc[t] = IF rotate THEN "close" ELSE "render"]
    /\ UNCHANGED <<today, facades, handlers, handleTab, files, console, pending, ncalls,
                   hist, rec, rd>>

\* emit: if self.stream: self.stream.close(); self.stream = None
TClose(t) ==
    /\ thr.pc[t] = "close"
    /\ LET H == handlers[TheHandler]
           c == close(handleTab, files, Unwrap(H.stream))
       IN  IF IsNone(H.stream)
           THEN UNCHANGED <<handlers, handleTab, files>>
           ELSE /\ handleTab' = c.T
                /\ files' = c.F
                /\ handlers' = [handlers EXCEPT ![TheHandler].stream = None]
    /\ thr' = [thr EXCEPT !.pc[t] = "open"]
    /\ UNCHANGED <<today, facades, console, pending, ncalls, hist, rec, rd>>

\* emit: self._current_file = current_log_file; self.baseFilename = ...;
\* self.stream = self._open()
TOpen(t) ==
    /\ thr.pc[t] = "open"
    /\ LET o == open_append(handleTab, files, Unwrap(thr.cur[t]))
       IN  /\ handleTab' = o.T
           /\ files' = o.F
           /\ handlers' = [handlers EXCEPT ![TheHandler].current_file = thr.cur[t],
                                           ![TheHandler].baseFilename = Unwrap(thr.cur[t]),
                                           ![TheHandler].stream = Some(o.id)]
    /\ thr' = [thr EXCEPT !.pc[t] = "render"]
    /\ UNCHANGED <<today, facades, console, pending, ncalls, hist, rec, rd>>

\* emit: json_line = self._serialize_record(record); the text handler formats
\* the record inside StreamHandler.emit
TRender(t) ==
    /\ thr.pc[t] = "render"
    /\ LET record == Unwrap(pending[t]).record
       IN  thr' = [thr EXCEPT !.line[t] = IF handlers[TheHandler].kind = "json"
                                          THEN _serialize_record(record, FALSE)
                                          ELSE text_format(record),
                              !.pc[t] = "write"]
    /\ UNCHANGED <<today, facades, handlers, handleTab, files, console, pending, ncalls,
                   hist, rec, rd>>

\* emit: the stream is self.stream, or a newly opened file object when
\* self.stream is None (the text handler keeps it, the JSON handler does not);
\* write, flush.  A closed stream raises: handleError.  g: the file object only
\* a local variable refers to is closed when emit returns.
TWrite(t, g) ==
    /\ thr.pc[t] = "write"
    /\ LET H == handlers[TheHandler]
           missing == IsNone(H.stream)
           o == open_append(handleTab, files, H.baseFilename)
           T1 == IF missing THEN o.T ELSE handleTab
           F1 == IF missing THEN o.F ELSE files
           stream == IF missing THEN o.id ELSE Unwrap(H.stream)
           ok == T1[stream].open
           w == write_flush(T1, F1, stream, thr.line[t] \o <<NL>>)
           c == IF missing /\ H.kind = "json" /\ g THEN close(w.T, w.F, stream) ELSE w
       IN  /\ handlers' = IF missing /\ H.kind = "text"
                          THEN [handlers EXCEPT ![TheHandler].stream = Some(o.id)]
                          ELSE handlers
           /\ handleTab' = IF ok THEN c.T ELSE T1
           /\ files' = IF ok THEN c.F ELSE F1
           /\ thr' = [thr EXCEPT !.pc[t] = "release",
                                 !.log = Append(@, [t |-> t, day |-> thr.day[t],
                                                    path |-> T1[stream].path,
                                                    rotated |-> thr.rot[t], ok |-> ok,
                                                    text |-> thr.line[t] \o <<NL>>])]
    /\ UNCHANGED <<today, facades, console, pending, ncalls, hist, rec, rd>>

\* Handler.handle: self.release(); the log call returns
TRelease(t) ==
    /\ thr.pc[t] = "release"
    /\ thr' = [thr EXCEPT !.lock = IF @ = Some(t) THEN None ELSE @, !.pc[t] = "idle"]
    /\ pending' = [pending EXCEPT ![t] = None]
    /\ UNCHANGED <<today, facades, handlers, handleTab, files, console, ncalls, hist,
                   rec, rd>>

TNext ==
    \/ \E d \in Days : TSetDate(d)
    \/ \E t \in LogThreads, c \in CallArgs : TLogCall(t, c[1], c[2])
    \/ \E t \in LogThreads : TAcquire(t)
    \/ \E t \in LogThreads : TDate(t)
    \/ \E t \in LogThreads : TClose(t)
    \/ \E t \in LogThreads : TOpen(t)
    \/ \E t \in LogThreads : TRender(t)
    \/ \E t \in LogThreads, g \in BOOLEAN : TWrite(t, g)
    \/ \E t \in LogThreads : TRelease(t)

SpecThreads == TInit /\ [][TNext]_vars


\* =========================================================================
\* Properties of the writers and the factories
\* =========================================================================

\* the day file a handler must use for a write that read the date d
DayFile(H, d) == Path(H.log_dir, DateKeys[d], Suffix(H.kind))

\* what a successful write of the event's record puts into the file
Rendered(e) ==
    (IF handlers[e.h].kind = "json"
     THEN _serialize_record(e.record, e.tbFailed)
     ELSE text_format(e.record)) \o <<NL>>

\* index in hs of the last event of handler h before position n (0: none)
RECURSIVE LastEventBefore(_, _, _)
LastEventBefore(hs, h, n) ==
    IF n <= 1 THEN 0
    ELSE IF hs[n - 1].h = h THEN n - 1 ELSE LastEventBefore(hs, h, n - 1)

IsLastEventOf(i) == LastEventBefore(hist, hist[i].h, Len(hist) + 1) = i

\* the successful events whose day file is p, in order
RECURSIVE OkEventsInto(_, _)
OkEventsInto(p, i) ==
    IF i > Len(hist) THEN <<>>
    ELSE (IF hist[i].ok /\ DayFile(handlers[hist[i].h], hist[i].day) = p
          THEN <<hist[i]>> ELSE <<>>) \o OkEventsInto(p, i + 1)

RECURSIVE RenderAll(_)
RenderAll(es) == IF es = <<>> THEN <<>> ELSE Rendered(Head(es)) \o RenderAll(Tail(es))

\* C1: after every write of a handler that completes without error, the
\* handler's stream is an open file object on the day file of the date read
\* during that write, and _current_file is that same path.
C1_StreamOnDayFile ==
    \A i \in 1..Len(hist) :
        (hist[i].ok /\ IsLastEventOf(i)) =>
            LET H == handlers[hist[i].h]
                p == DayFile(H, hist[i].day)
            IN  /\ H.current_file = Some(p)
                /\ ~IsNone(H.stream)
                /\ handleTab[Unwrap(H.stream)].open
                /\ handleTab[Unwrap(H.stream)].path = p

\* C1 (what the code does keep): after every write that completes without
\* error _current_file and baseFilename name the day file of the date read, and
\* the text handler's stream is an open file object on it; the JSON handler's
\* stream is that or None.
C1_Kept ==
    \A i \in 1..Len(hist) :
        (hist[i].ok /\ IsLastEventOf(i)) =>
            LET H == handlers[hist[i].h]
                p == DayFile(H, hist[i].day)
            IN  /\ H.current_file = Some(p)
                /\ H.baseFilename = p
                /\ (H.kind = "text" => ~IsNone(H.stream))
                /\ (~IsNone(H.stream) =>
                        /\ handleTab[Unwrap(H.stream)].open
                        /\ handleTab[Unwrap(H.stream)].path = p)

\* C2: when the date key differs from the one of the handler's previous write,
\* a successful write closes the stream the handler held (after a successful
\* previous write that stream is on the previous day's file, a distinct file),
\* opens a new file object on the day file of the new date (creating the file),
\* and appends its line there; no write, at a rollover or not, changes another
\* file than the day file of the date it read, and a failed write changes no
\* content.
C2_Step ==
    (hist' # hist) =>
        LET e == hist'[Len(hist')]
            H == handlers[e.h]
            Hn == handlers'[e.h]
            prev == LastEventBefore(hist', e.h, Len(hist'))
            new == DayFile(H, e.day)
            rollover == prev > 0 /\ hist[prev].day # e.day
        IN  /\ (rollover /\ e.ok) =>
                /\ ~IsNone(H.stream) =>
                      /\ ~handleTab'[Unwrap(H.stream)].open
                      /\ Unwrap(Hn.stream) # Unwrap(H.stream)
                      /\ hist[prev].ok =>
                             /\ handleTab[Unwrap(H.stream)].path = DayFile(H, hist[prev].day)
                             /\ handleTab[Unwrap(H.stream)].path # new
                /\ ~IsNone(Hn.stream)
                /\ Unwrap(Hn.stream) > Len(handleTab)
                /\ handleTab'[Unwrap(Hn.stream)].path = new
                /\ handleTab'[Unwrap(Hn.stream)].open
                /\ files'[new].exists
            /\ \A p \in AllPaths :
                   files'[p].content =
                       IF e.ok /\ p = new THEN files[p].content \o Rendered(e)
                       ELSE files[p].content

C2_Rollover == [][C2_Step]_wvars

C2_Witness ==
    \E i \in 1..Len(hist) :
        LET prev == LastEventBefore(hist, hist[i].h, i)
        IN  /\ hist[i].ok
            /\ prev > 0
            /\ hist[prev].ok
            /\ hist[prev].day # hist[i].day

C4_OneFacadePerName ==
    /\ \A i, j \in 1..Len(facades) :
           (facades[i].name = facades[j].name /\ facades[i].kind = facades[j].kind)
               => i = j
    /\ \A i, j \in 1..Len(handlers) :
           (handlers[i].log_dir = handlers[j].log_dir /\ handlers[i].kind = handlers[j].kind)
               => i = j

SameLogger(i, j) ==
    /\ i # j
    /\ facades[i].name = facades[j].name
    /\ facades[i].kind = facades[j].kind

\* C5: once a logger name has been requested twice or more, one log call at or
\* above the level on any of the loggers returned appends exactly one rendering
\* (for a JSON logger exactly one line) to the day file of that name, or nothing
\* when the write fails: never two.
C5_Step ==
    (/\ pending' # pending
     /\ \E t \in Threads : ~IsNone(pending[t]) /\ IsNone(pending'[t])
     /\ \E i, j \in 1..Len(facades) : SameLogger(i, j)) =>
        LET t == CHOOSE t \in Threads : ~IsNone(pending[t]) /\ IsNone(pending'[t])
            call == Unwrap(pending[t])
            fac == facades[call.f]
            new == Path(fac.name, DateKeys[today], Suffix(fac.kind))
            added == Len(files'[new].content) - Len(files[new].content)
        IN  /\ Len(hist') = Len(hist) + 1
            /\ \A p \in AllPaths \ {new} : files'[p] = files[p]
            /\ SubSeq(files'[new].content, 1, Len(files[new].content)) = files[new].content
            /\ LET tail == SubSeq(files'[new].content, Len(files[new].content) + 1,
                                  Len(files'[new].content))
                   e == hist'[Len(hist')]
               IN  /\ e.record = call.record
                   /\ e.ok => (tail # <<>> /\ tail[Len(tail)] = NL)
                   /\ (e.ok /\ fac.kind = "json") => CountNL(tail) = 1
                   /\ (e.ok /\ fac.kind = "text") =>
                          CountNL(tail) = 1 + (IF IsNone(call.record.exc_info) THEN 0
                                               ELSE CountNL(format_exception(Unwrap(call.record.exc_info))))
                   /\ ~e.ok => tail = <<>>

C6_AllOrNone ==
    ~IsNone(rec.entry)
        => LET e == Unwrap(rec.entry)
           IN  \/ IsNone(e.exc_type) /\ IsNone(e.exc_message) /\ IsNone(e.exc_traceback)
               \/ ~IsNone(e.exc_type) /\ ~IsNone(e.exc_message) /\ ~IsNone(e.exc_traceback)

\* C7: the line json_dumps makes of an entry parses (json.loads) to a dict, and
\* from_dict of that dict equals the entry on all nine fields.
C7_RoundTrip ==
    /\ rec.stage = "parsed"
           => /\ ~Unwrap(rec.raw).raised
              /\ Unwrap(Unwrap(rec.raw).value).t = "dict"
    /\ rec.stage = "back"
           => \A k \in DOMAIN Unwrap(rec.entry) \cup DOMAIN Unwrap(rec.back) :
                  /\ k \in DOMAIN Unwrap(rec.entry)
                  /\ k \in DOMAIN Unwrap(rec.back)
                  /\ Unwrap(rec.back)[k] = Unwrap(rec.entry)[k]

\* a round trip done on an entry with all three exception fields populated, an
\* empty exception message, an empty logger name and a backslash in the message
C7_Witness ==
    /\ rec.stage = "back"
    /\ Unwrap(rec.entry).logger = <<>>
    /\ Unwrap(rec.entry).exc_message = Some(<<>>)
    /\ ~IsNone(Unwrap(rec.entry).exc_type)
    /\ ~IsNone(Unwrap(rec.entry).exc_traceback)
    /\ \E i \in 1..Len(Unwrap(rec.entry).message) : Unwrap(rec.entry).message[i] = BS

\* =========================================================================
\* Properties of the reader
\* =========================================================================
IsBlankKind(k) == k \in {"empty", "spaces"}
IsObjectKind(k) == k \in {"entry1", "entry2"}
NotBlankKind(k) == ~IsBlankKind(k)

\* what the parse of a line of that kind is, written down from the entry the
\* line was made of
EntryOf(k) == IF k = "entry1" THEN SampleEntry1 ELSE SampleEntry2
DictOf(k) ==
    IF k = "array" THEN JList(<<JNum("1"), JNum("3")>>)
    ELSE JDict([i \in 1..Len(Fields) |->
                  <<<<Fields[i]>>,
                    IF Fields[i] \in ExcFields
                    THEN (IF IsNone(EntryOf(k)[Fields[i]]) THEN JNull
                          ELSE JStr(Unwrap(EntryOf(k)[Fields[i]])))
                    ELSE JStr(EntryOf(k)[Fields[i]])>>])

\* the positions of the lines that are not valid JSON
BrokenAt(src) == {i \in 1..Len(src) : src[i] = "broken"}
FirstBroken(src) == CHOOSE i \in BrokenAt(src) : \A j \in BrokenAt(src) : i <= j

\* C8: a file of N non-blank valid lines and M blank lines, the blank lines
\* anywhere, reads as exactly N items, the i-th the parse of the i-th non-blank
\* line: to_list for lines of any valid JSON, to_records for lines that are
\* records.
C8_BlankLinesSkipped ==
    rd.stage = "done"
        => LET nb == SelectSeq(rd.src, NotBlankKind)
               res == Unwrap(rd.result)
           IN  /\ (rd.op = "to_list" /\ BrokenAt(rd.src) = {})
                      => /\ ~res.raised
                         /\ Unwrap(res.value) = [i \in 1..Len(nb) |-> DictOf(nb[i])]
               /\ (rd.op = "to_records" /\ \A i \in 1..Len(nb) : IsObjectKind(nb[i]))
                      => /\ ~res.raised
                         /\ Unwrap(res.value) = [i \in 1..Len(nb) |-> EntryOf(nb[i])]

\* to_records done on a file with two different records and blank lines before,
\* between or after them
C8_Witness ==
    /\ rd.stage = "done"
    /\ rd.op = "to_records"
    /\ \E i, j, k \in 1..Len(rd.src) :
          /\ i < j
          /\ rd.src[i] = "entry2"
          /\ rd.src[j] = "entry1"
          /\ IsBlankKind(rd.src[k])
    /\ \A i \in 1..Len(rd.src) : IsObjectKind(rd.src[i]) \/ IsBlankKind(rd.src[i])
    /\ Len(Unwrap(Unwrap(rd.result).value)) = 2

C10_ErrorLocatesLine ==
    (rd.stage = "done" /\ BrokenAt(rd.src) # {}
     /\ Unwrap(rd.result).raised
     /\ Unwrap(Unwrap(rd.result).error).type = "JSONDecodeError")
        => LET err == Unwrap(Unwrap(rd.result).error)
           IN  /\ "path" \in DOMAIN err
               /\ err.path = rd.path
               /\ err.lineno = FirstBroken(rd.src)

\* =========================================================================
\* Further properties of the writers
\* =========================================================================

\* the events the step has added to the history
NewEvents == {i \in 1..Len(hist') : i > Len(hist)}

\* C11: no failure of a step of a write (closing the old stream, opening the day
\* file, rendering, appending to a closed stream) leaves emit: the log call
\* returns, handleError was called for the failed write and not for a
\* successful one, the failed write changes the content of no file, and the
\* facade accepts the next log call.
C11_Step ==
    /\ \A i \in NewEvents :
           /\ ~hist'[i].raised
           /\ hist'[i].ok <=> hist'[i].errs = 0
    /\ (NewEvents # {} /\ \A i \in NewEvents : ~hist'[i].ok)
           => /\ \A p \in AllPaths : files'[p].content = files[p].content
              /\ \A t \in Threads : IsNone(pending'[t])
    /\ (/\ \E i \in 1..Len(hist) : ~hist[i].ok
        /\ ncalls < MaxCalls
        /\ \A t \in Threads : IsNone(pending[t]))
           => \A f \in 1..Len(facades) : \A c \in CallArgs : \A t \in Threads :
                  ENABLED LogCall(t, f, c[1], c[2])

C11_FailuresSwallowed == [][C11_Step]_wvars

\* a failed write, handed to handleError, and a successful write of the same
\* handler after it
C11_Witness ==
    \E a, b \in 1..Len(hist) :
        /\ a < b
        /\ hist[a].h = hist[b].h
        /\ ~hist[a].ok
        /\ hist[a].errs >= 1
        /\ hist[b].ok

\* the last successful write into the day file of event i is event i
IsLastOkInto(i) ==
    LET p == DayFile(handlers[hist[i].h], hist[i].day)
    IN  /\ hist[i].ok
        /\ \A j \in (i + 1)..Len(hist) :
               ~(hist[j].ok /\ DayFile(handlers[hist[j].h], hist[j].day) = p)

\* C14: when a log call has returned, the buffer of every file object is empty,
\* and the content of the day file on disk ends with the rendering of the last
\* successful write into it followed by exactly one line end.
C14_FlushedBeforeReturn ==
    /\ \A id \in 1..Len(handleTab) : handleTab[id].buf = <<>>
    /\ \A i \in 1..Len(hist) :
           IsLastOkInto(i) =>
               LET H == handlers[hist[i].h]
                   line == IF H.kind = "json"
                           THEN _serialize_record(hist[i].record, hist[i].tbFailed)
                           ELSE text_format(hist[i].record)
                   c == files[DayFile(H, hist[i].day)].content
               IN  /\ Len(c) >= Len(line) + 1
                   /\ SubSeq(c, Len(c) - Len(line), Len(c)) = line \o <<NL>>
                   /\ line # <<>>
                   /\ line[Len(line)] # NL

\* a successful write of a JSON handler that held no stream and wrote through a
\* file object of its own
C14_Witness ==
    \E j \in 1..Len(hist) :
        /\ IsLastOkInto(j)
        /\ handlers[hist[j].h].kind = "json"
        /\ IsNone(handlers[hist[j].h].stream)
        /\ files[DayFile(handlers[hist[j].h], hist[j].day)].content # <<>>

\* =========================================================================
\* Properties of concurrent writes
\* =========================================================================
Inside(t) == thr.pc[t] \in {"date", "close", "open", "render", "write", "release"}

\* the texts of the successful writes into path p, in the order of the writes
RECURSIVE WrittenInto(_, _)
WrittenInto(p, i) ==
    IF i > Len(thr.log) THEN <<>>
    ELSE (IF thr.log[i].ok /\ thr.log[i].path = p THEN thr.log[i].text ELSE <<>>)
         \o WrittenInto(p, i + 1)

\* C12: the writes of one handler are mutually exclusive, whatever the
\* interleaving of the threads and of the date changes: at most one thread is
\* inside emit; (a) a thread entering emit, and a thread past the rotation,
\* finds the stream open on the file the handler's paths name; (b) every file
\* holds the whole renderings of the writes made into it, one after the other,
\* and no write is lost; (c) a write rotates exactly when the date it read
\* differs from the date the previous write read (the first write always does).
C12_CriticalSection ==
    LET H == handlers[TheHandler]
    IN  /\ \A t1, t2 \in LogThreads : (Inside(t1) /\ Inside(t2)) => t1 = t2
        /\ \A t \in LogThreads :
               thr.pc[t] \in {"idle", "handle", "date", "render", "write", "release"}
               /\ (\A u \in LogThreads \ {t} : ~Inside(u))
                   => /\ ~IsNone(H.stream)
                      /\ handleTab[Unwrap(H.stream)].open
                      /\ handleTab[Unwrap(H.stream)].path = H.baseFilename
                      /\ H.current_file \in {None, Some(H.baseFilename)}
        /\ \A t \in LogThreads :
               thr.pc[t] \in {"render", "write", "release"}
                   => /\ H.current_file = thr.cur[t]
                      /\ handleTab[Unwrap(H.stream)].path = Unwrap(thr.cur[t])
        /\ \A p \in AllPaths : files[p].content = WrittenInto(p, 1)
        /\ \A i \in 1..Len(thr.log) :
               /\ thr.log[i].ok
               /\ thr.log[i].path = DayFile(H, thr.log[i].day)
               /\ thr.log[i].rotated <=> (i = 1 \/ thr.log[i].day # thr.log[i - 1].day)

\* one thread waits for the lock while the other is inside emit, past a
\* rotation, after a write of the waiting thread for another date
C12_Witness ==
    \E t, u \in LogThreads :
        /\ t # u
        /\ thr.pc[t] = "handle"
        /\ thr.pc[u] = "write"
        /\ thr.rot[u]
        /\ Len(thr.log) >= 1
        /\ thr.log[Len(thr.log)].t = t
        /\ thr.log[Len(thr.log)].day # thr.day[u]

\* =========================================================================
\* Properties of records read back
\* =========================================================================
Contains(s, a) == \E i \in 1..Len(s) : s[i] = a

\* C13: the day file of a JSON logger reads back as one record per successful
\* write, in write order (so the last call's record is the last), and the
\* record of a call made with an exception instance, the traceback formatted,
\* has exc_type the class name of that exception (of the outer one when it
\* wraps another), exc_message its str() and an exc_traceback that contains the
\* class name.
C13_ExceptionReadBack ==
    rd.stage = "done" =>
        LET es == OkEventsInto(rd.path, 1)
            res == Unwrap(rd.result)
        IN  /\ ~res.raised
            /\ Len(Unwrap(res.value)) = Len(es)
            /\ \A k \in 1..Len(es) :
                   LET r == Unwrap(res.value)[k]
                       ei == es[k].record.exc_info
                   IN  /\ r.message = es[k].record.msg
                       /\ (/\ ~IsNone(ei)
                           /\ ~IsNone(Unwrap(ei).evalue)
                           /\ ~es[k].tbFailed)
                              => LET e == Unwrap(Unwrap(ei).evalue)
                                 IN  /\ r.exc_type = Some(<<e.cls>>)
                                     /\ r.exc_message = Some(e.text)
                                     /\ ~IsNone(r.exc_traceback)
                                     /\ Contains(Unwrap(r.exc_traceback), e.cls)

\* a file read back whose last record is that of a call made with an exception
\* that wraps another one, after a record without exception
C13_Witness ==
    /\ rd.stage = "done"
    /\ LET es == OkEventsInto(rd.path, 1)
       IN  /\ Len(es) = 2
           /\ IsNone(es[1].record.exc_info)
           /\ ~IsNone(es[2].record.exc_info)
           /\ ~es[2].tbFailed
           /\ ~IsNone(Unwrap(es[2].record.exc_info).evalue)
           /\ ~IsNone(Unwrap(Unwrap(es[2].record.exc_info).evalue).cause)
           /\ Unwrap(Unwrap(rd.result).value)[2].exc_type = Some(<<"AppError">>)

\* =========================================================================
\* Properties of the level filter
\* =========================================================================
FileSinksOf(f) == {i \in 1..Len(facades[f].handlers) : facades[f].handlers[i].sink = "file"}
ConsoleSinksOf(f) ==
    {i \in 1..Len(facades[f].handlers) : facades[f].handlers[i].sink = "console"}

C15_Step ==
    /\ \A t \in Threads :
           \* a log call returns with nothing changed, or with a record at or
           \* above the facade's level on its way to the writers
           (IsNone(pending[t]) /\ ncalls' = ncalls + 1) =>
               /\ UNCHANGED <<today, facades, handlers, handleTab, files, console, hist>>
               /\ ~IsNone(pending'[t]) =>
                      Unwrap(pending'[t]).record.levelno
                          >= facades[Unwrap(pending'[t]).f].level
    /\ \A t \in Threads :
           \* the record on its way reaches every attached file writer once, in
           \* the order attached, and every console writer once
           (~IsNone(pending[t]) /\ IsNone(pending'[t])) =>
               LET p == Unwrap(pending[t])
                   fs == FileSinksOf(p.f)
                   new == [k \in 1..(Len(hist') - Len(hist)) |-> hist'[Len(hist) + k]]
               IN  /\ p.record.levelno >= facades[p.f].level
                   /\ Len(new) = Cardinality(fs)
                   /\ \A i \in fs :
                          Cardinality({k \in 1..Len(new) :
                                          new[k].h = facades[p.f].handlers[i].h}) = 1
                   /\ \A k \in 1..Len(new) : new[k].record = p.record
                   /\ console' \in {console, console + Cardinality(ConsoleSinksOf(p.f))}
                   /\ (\A k \in 1..Len(new) : new[k].ok)
                          => console' = console + Cardinality(ConsoleSinksOf(p.f))

\* C15: a log call below the facade's level changes nothing (no record is
\* forwarded, no file or console output); a call at or above it is forwarded
\* exactly once to each writer attached to the facade.
C15_LevelFilter == [][C15_Step]_wvars

\* two calls were made on a text facade of level ERROR with a console writer,
\* one dropped and one forwarded to the file and to the console
C15_Witness ==
    /\ ncalls = 2
    /\ Len(facades) = 1
    /\ facades[1].kind = "text"
    /\ facades[1].level = ERROR
    /\ \A t \in Threads : IsNone(pending[t])
    /\ Len(hist) = 1
    /\ hist[1].record.levelno = ERROR
    /\ console = 1

\* =========================================================================
\* Properties of the level field
\* =========================================================================
SpecLevelNames == {<<"DEBUG">>, <<"INFO">>, <<"WARN">>, <<"ERROR">>, <<"FATAL">>}

\* C16: the level field of every JSON record written, as read back from the
\* day file, is one of DEBUG, INFO, WARN, ERROR, FATAL.
C16_LevelNames ==
    rd.stage = "done" =>
        \A k \in 1..Len(Unwrap(Unwrap(rd.result).value)) :
            Unwrap(Unwrap(rd.result).value)[k].level \in SpecLevelNames

\* =========================================================================
\* Properties of from_dict
\* =========================================================================
KeysOf(raw) == {raw.items[i][1][1] : i \in 1..Len(raw.items)}
IsKnownPair(pair) == pair[1][1] \in FieldSet
KnownOnly(raw) == JDict(SelectSeq(raw.items, IsKnownPair))

\* C17: from_dict gives a record for every dict; a string field whose key is
\* absent is the empty string, an exception field whose key is absent is null,
\* a key that is present gives its value, and the keys that are none of the
\* nine change nothing: the record is the one of the dict without them.
C17_FromDictDefaults ==
    rec.stage = "back" =>
        LET raw == Unwrap(Unwrap(rec.raw).value)
            back == Unwrap(rec.back)
        IN  /\ DOMAIN back = FieldSet
            /\ \A k \in StrFields :
                   back[k] = IF k \in KeysOf(raw) THEN <<"v", k>> ELSE <<>>
            /\ \A k \in ExcFields :
                   back[k] = IF k \in KeysOf(raw) THEN Some(<<"v", k>>) ELSE None
            /\ back = from_dict(KnownOnly(raw))

\* a dict without "message" and without "exc_type", with "time" and with two
\* keys that are none of the nine, converted
C17_Witness ==
    /\ rec.stage = "back"
    /\ LET keys == KeysOf(Unwrap(Unwrap(rec.raw).value))
       IN  /\ "message" \notin keys
           /\ "exc_type" \notin keys
           /\ "time" \in keys
           /\ {"pid", "exc"} \subseteq keys
    /\ Unwrap(rec.back).message = <<>>
    /\ Unwrap(rec.back).exc_type = None

\* =========================================================================
\* Properties of the files a writer opens
\* =========================================================================
\* C18: a writer that has written to the file of one day and then to the file
\* of another day never writes to the first file again, whatever the dates the
\* successive writes see.
C18_NeverReopened ==
    \A i, j, k \in 1..Len(thr.log) :
        (/\ i < j /\ j < k
         /\ thr.log[i].ok /\ thr.log[j].ok /\ thr.log[k].ok
         /\ thr.log[i].path = thr.log[k].path)
            => thr.log[j].path = thr.log[i].path

\* =========================================================================
\* Properties of the reader on lines that are JSON but no object
\* =========================================================================
ArrayAt(src) == {i \in 1..Len(src) : src[i] = "array"}

\* C19: a read of a file whose first line that is no record is a JSON array
\* raises the decode failure, with to_list and with to_records, and returns no
\* list.
C19_NonObjectAborts ==
    (/\ rd.stage = "done"
     /\ ArrayAt(rd.src) # {}
     /\ \A b \in BrokenAt(rd.src) : \E a \in ArrayAt(rd.src) : a < b)
        => /\ Unwrap(rd.result).raised
           /\ IsNone(Unwrap(rd.result).value)
           /\ Unwrap(Unwrap(rd.result).error).type = "JSONDecodeError"

\* =========================================================================
\* Properties of failed writes
\* =========================================================================
EndsLine(content) == content = <<>> \/ content[Len(content)] = NL

C21_OneTrackedHandle ==
    \A id \in 1..Len(handleTab) :
        handleTab[id].open =>
            Cardinality({h \in 1..Len(handlers) : handlers[h].stream = Some(id)}) = 1

\* =========================================================================
\* Properties of the dates in a day file
\* =========================================================================
\* C22: the date part of the time field of every record read back from a day
\* file is the date in the name of that file.
C22_DateMatchesFile ==
    (rd.stage = "done" /\ ~Unwrap(rd.result).raised) =>
        \A k \in 1..Len(Unwrap(Unwrap(rd.result).value)) :
            \E d \in Days :
                /\ rd.path.key = DateKeys[d]
                /\ Unwrap(Unwrap(rd.result).value)[k].time[1] = IsoDates[d]

\* =========================================================================
\* Properties of the creation of day files
\* =========================================================================
\* C23: a day file exists only if a write was attempted by a writer for that
\* day, and a writer whose _current_file is None holds no stream: constructing
\* a writer without logging through it creates no file.
C23_FilesOnlyFromWrites ==
    /\ \A p \in AllPaths :
           files[p].exists =>
               \E i \in 1..Len(hist) : DayFile(handlers[hist[i].h], hist[i].day) = p
    /\ \A h \in 1..Len(handlers) :
           IsNone(handlers[h].current_file) => IsNone(handlers[h].stream)

====
